---- MODULE Spec2Model ----
(***************************************************************************)
(* Model of the security-deposit front end: the Home component's React     *)
(* state, its memoised callbacks (with the values each closure captured    *)
(* when it was created), the polling effect, the asynchronous approve and  *)
(* deposit handlers, and the ledger client wrappers of contracts.ts.       *)
(*                                                                         *)
(* Every await of the source is a suspension point: an asynchronous        *)
(* invocation is a record in `reads` or `writes` that names the await it   *)
(* is suspended at, and one action resumes it up to its next await.  The   *)
(* state updates made in one such segment are batched into one render,     *)
(* after which the effects whose dependencies changed run (Commit).        *)
(***************************************************************************)
EXTENDS Integers, Sequences, FiniteSets, Bags, TLC

(***************************************************************************)
(* Bounds of the model.                                                    *)
(***************************************************************************)
MaxReads == 2        \* status reads in flight at once
MaxWrites == 2       \* approve/deposit invocations in flight at once
MaxTimers == 1       \* backoff setTimeout callbacks pending at once
MaxRetryCount == 4   \* cap of the retry counter in the guards

(***************************************************************************)
(* Values.                                                                 *)
(***************************************************************************)
Null == "null"       \* JavaScript null (and `undefined` address)
Keep == "<keep>"     \* "this branch does not call the setter"
Addrs == {"A", "B"}
ApprovalStates == {"idle", "pending", "approved", "failed"}
DepositStates == {"idle", "pending", "success", "failed"}

\* flatDepositAmount() of the pool contract, and the amounts the ledger can
\* hold for an owner's allowance and balance.
flatDepositAmount == 150
AllowanceValues == {0, flatDepositAmount}
BalanceValues == {100, flatDepositAmount}

(***************************************************************************)
(* String.prototype.includes                                               *)
(***************************************************************************)
Includes(s, p) ==
  \E i \in 1..(Len(s) - Len(p) + 1) : SubSeq(s, i, i + Len(p) - 1) = p

(***************************************************************************)
(* What a ledger or wallet call can throw: an Error with a message, or a   *)
(* value that is not an Error.  The messages are the ones ethers and the   *)
(* wallets produce for the failure classes the source matches on.          *)
(***************************************************************************)
Err(m) == [isError |-> TRUE, message |-> m]
NotAnError == [isError |-> FALSE, message |-> ""]

RawUserRejected == {
  Err("user rejected action"),
  Err("MetaMask Tx Signature: User denied transaction signature.") }

RawErrors == RawUserRejected \cup {
  Err("insufficient funds for intrinsic transaction cost"),
  Err("cannot estimate gas; transaction may fail"),
  Err("could not detect network"),
  Err("request timeout"),
  Err("nonce has already been used"),
  Err("execution reverted: already deposited"),
  Err("ERC20: insufficient allowance"),
  Err("429 Too Many Requests"),
  Err("rate limit exceeded"),
  Err("unsupported chain"),
  Err("invalid address"),
  Err("missing response"),
  NotAnError }

(***************************************************************************)
(* contracts.ts: each wrapper catches what the call threw and throws a new *)
(* Error whose message it chooses by substring match.                      *)
(***************************************************************************)
WrapHasDeposited(e) ==
  IF e.isError
  THEN IF Includes(e.message, "network") \/ Includes(e.message, "timeout")
       THEN Err("Network error while checking deposit status. Please check your connection.")
       ELSE IF Includes(e.message, "rate limit") \/ Includes(e.message, "429")
       THEN Err("Rate limited while checking deposit status. Please wait and try again.")
       ELSE IF Includes(e.message, "invalid address")
       THEN Err("Invalid wallet address provided.")
       ELSE Err("Failed to check deposit status. Please try again.")
  ELSE Err("Failed to check deposit status")

WrapGetFlatDepositAmount(e) ==
  IF e.isError
  THEN IF Includes(e.message, "network") \/ Includes(e.message, "timeout")
       THEN Err("Network error while getting deposit amount. Please check your connection.")
       ELSE IF Includes(e.message, "rate limit") \/ Includes(e.message, "429")
       THEN Err("Rate limited while getting deposit amount. Please wait and try again.")
       ELSE Err("Failed to get deposit amount from contract. Please try again.")
  ELSE Err("Failed to get deposit amount")

WrapApproveUSDT(e) ==
  IF e.isError
  THEN IF Includes(e.message, "user rejected") \/ Includes(e.message, "User denied")
       THEN Err("User rejected the approval transaction.")
       ELSE IF Includes(e.message, "insufficient funds") \/ Includes(e.message, "balance")
       THEN Err("Insufficient ETH balance for gas fees.")
       ELSE IF Includes(e.message, "gas") \/ Includes(e.message, "Gas")
       THEN Err("Gas estimation failed. Please try again with higher gas settings.")
       ELSE IF Includes(e.message, "network") \/ Includes(e.message, "timeout")
       THEN Err("Network error during approval. Please check your connection.")
       ELSE IF Includes(e.message, "nonce")
       THEN Err("Transaction nonce error. Please reset your wallet account.")
       ELSE Err("Failed to approve USDT spending. Please try again.")
  ELSE Err("Failed to approve USDT spending")

WrapGetUSDTAllowance(e) == Err("Failed to check USDT allowance")

WrapDeposit(e) ==
  IF e.isError
  THEN IF Includes(e.message, "user rejected") \/ Includes(e.message, "User denied")
       THEN Err("User rejected the deposit transaction.")
       ELSE IF Includes(e.message, "insufficient funds") \/ Includes(e.message, "balance")
       THEN Err("Insufficient ETH balance for gas fees.")
       ELSE IF Includes(e.message, "gas") \/ Includes(e.message, "Gas")
       THEN Err("Gas estimation failed. Please try again with higher gas settings.")
       ELSE IF Includes(e.message, "network") \/ Includes(e.message, "timeout")
       THEN Err("Network error during deposit. Please check your connection.")
       ELSE IF Includes(e.message, "allowance")
               \/ Includes(e.message, "ERC20: insufficient allowance")
       THEN Err("USDT allowance insufficient. Please approve USDT spending first.")
       ELSE IF Includes(e.message, "already deposited")
       THEN Err("You have already made a deposit to this contract.")
       ELSE IF Includes(e.message, "reverted") \/ Includes(e.message, "execution reverted")
       THEN Err("Transaction was reverted by the contract. Please check contract conditions.")
       ELSE IF Includes(e.message, "nonce")
       THEN Err("Transaction nonce error. Please reset your wallet account.")
       ELSE Err("Failed to make deposit. Please try again.")
  ELSE Err("Failed to make deposit")

WrapGetUSDTBalance(e) == Err("Failed to get USDT balance")

\* createContractUtils: a value that is not an Error is rethrown as it is.
WrapCreateContractUtils(e) ==
  IF e.isError
  THEN IF Includes(e.message, "network") \/ Includes(e.message, "Network")
       THEN Err("Network connection error. Please check your internet connection and try again.")
       ELSE IF Includes(e.message, "Wallet not connected")
       THEN Err("Wallet not connected. Please connect your wallet first.")
       ELSE Err("Failed to initialize contract connection. Please try again.")
  ELSE e

WrapCreateReadOnlyContractUtils(e) ==
  IF e.isError
  THEN IF Includes(e.message, "network") \/ Includes(e.message, "Network")
       THEN Err("Network connection error. Please check your internet connection and try again.")
       ELSE IF Includes(e.message, "Public client not available")
       THEN Err("Unable to connect to blockchain network. Please try again.")
       ELSE Err("Failed to initialize read-only contract connection. Please try again.")
  ELSE e

(***************************************************************************)
(* part_002 (the Home component): the catch blocks of the handlers.  Each  *)
(* returns what the block sets; Keep where it calls no setter.             *)
(***************************************************************************)
Set(v, old) == IF v = Keep THEN old ELSE v

\* a catch block that treats every failure as it treats a user rejection
ApproveCatchSilent(e) == [approvalStatus |-> "idle", networkError |-> Keep, error |-> Keep]

\* handleApprove, catch (error)
ApproveCatch(e) ==
  IF ~e.isError
  THEN [approvalStatus |-> "failed", networkError |-> Keep,
        error |-> "An unexpected error occurred during approval. Please try again."]
  ELSE IF Includes(e.message, "user rejected") \/ Includes(e.message, "User denied")
  THEN [approvalStatus |-> "idle", networkError |-> Keep, error |-> Keep]
  ELSE IF Includes(e.message, "insufficient funds") \/ Includes(e.message, "balance")
  THEN [approvalStatus |-> "failed", networkError |-> Keep,
        error |-> "Insufficient USDT balance. Please ensure you have enough USDT in your wallet."]
  ELSE IF Includes(e.message, "gas") \/ Includes(e.message, "Gas")
  THEN [approvalStatus |-> "failed", networkError |-> Keep,
        error |-> "Transaction failed due to gas issues. Try increasing gas limit or gas price in your wallet."]
  ELSE IF Includes(e.message, "network") \/ Includes(e.message, "Network")
          \/ Includes(e.message, "timeout")
  THEN [approvalStatus |-> "failed", networkError |-> "Network Error",
        error |-> "Network error occurred. Please check your connection and try again."]
  ELSE IF Includes(e.message, "nonce") \/ Includes(e.message, "replacement")
  THEN [approvalStatus |-> "failed", networkError |-> Keep,
        error |-> "Transaction nonce error. Please reset your wallet account or try again."]
  ELSE IF Includes(e.message, "reverted") \/ Includes(e.message, "execution reverted")
  THEN [approvalStatus |-> "failed", networkError |-> Keep,
        error |-> "Transaction was reverted by the contract. Please check contract conditions and try again."]
  ELSE IF Includes(e.message, "rate limit") \/ Includes(e.message, "429")
  THEN [approvalStatus |-> "failed", networkError |-> Keep,
        error |-> "Too many requests. Please wait a moment before trying again."]
  ELSE [approvalStatus |-> "failed", networkError |-> Keep,
        error |-> "Approval transaction failed. Please check your wallet and try again."]

\* handleDeposit, catch (error)
DepositCatch(e) ==
  LET R(ds, as, er, ne, hd) ==
        [depositStatus |-> ds, approvalStatus |-> as, error |-> er,
         networkError |-> ne, hasDeposited |-> hd]
  IN
  IF ~e.isError
  THEN R("failed", Keep, "An unexpected error occurred during deposit. Please try again.", Keep, Keep)
  ELSE IF Includes(e.message, "user rejected") \/ Includes(e.message, "User denied")
  THEN R("idle", Keep, Keep, Keep, Keep)
  ELSE IF Includes(e.message, "insufficient funds") \/ Includes(e.message, "balance")
  THEN R("failed", Keep, "Insufficient USDT balance. Please ensure you have enough USDT in your wallet.", Keep, Keep)
  ELSE IF Includes(e.message, "gas") \/ Includes(e.message, "Gas")
  THEN R("failed", Keep, "Transaction failed due to gas issues. Try increasing gas limit or gas price in your wallet.", Keep, Keep)
  ELSE IF Includes(e.message, "network") \/ Includes(e.message, "Network")
          \/ Includes(e.message, "timeout")
  THEN R("failed", Keep, "Network error occurred. Please check your connection and try again.", "Network Error", Keep)
  ELSE IF Includes(e.message, "allowance")
          \/ Includes(e.message, "ERC20: insufficient allowance")
  THEN R("failed", "idle", "USDT allowance insufficient. Please approve USDT spending again.", Keep, Keep)
  ELSE IF Includes(e.message, "nonce") \/ Includes(e.message, "replacement")
  THEN R("failed", Keep, "Transaction nonce error. Please reset your wallet account or try again.", Keep, Keep)
  ELSE IF Includes(e.message, "reverted") \/ Includes(e.message, "execution reverted")
  THEN R("failed", Keep, "Transaction was reverted by the contract. You may have already deposited or there may be a contract issue.", Keep, Keep)
  ELSE IF Includes(e.message, "rate limit") \/ Includes(e.message, "429")
  THEN R("failed", Keep, "Too many requests. Please wait a moment before trying again.", Keep, Keep)
  ELSE IF Includes(e.message, "already deposited")
  THEN R("failed", Keep, "You have already made a deposit to this contract.", Keep, "true")
  ELSE R("failed", Keep, "Deposit transaction failed. Please check your wallet and try again.", Keep, Keep)

\* checkDepositStatus, catch (error): the two messages it sets and whether
\* the branch taken is the one that schedules a backoff retry.
StatusCatch(e) ==
  IF ~e.isError
  THEN [depositCheckError |-> "Unknown error occurred while checking deposit status.",
        networkError |-> "Unknown Error", network |-> FALSE]
  ELSE IF Includes(e.message, "contract address not configured")
  THEN [depositCheckError |-> "Contract configuration error. Please check environment variables.",
        networkError |-> "Configuration Error", network |-> FALSE]
  ELSE IF Includes(e.message, "network") \/ Includes(e.message, "fetch")
          \/ Includes(e.message, "timeout")
  THEN [depositCheckError |-> "Network connection issue. Please check your internet connection.",
        networkError |-> "Network Error", network |-> TRUE]
  ELSE IF Includes(e.message, "rate limit") \/ Includes(e.message, "429")
  THEN [depositCheckError |-> "Too many requests. Please wait a moment before trying again.",
        networkError |-> "Rate Limited", network |-> FALSE]
  ELSE IF Includes(e.message, "chain") \/ Includes(e.message, "unsupported")
  THEN [depositCheckError |-> "Unsupported network. Please ensure you are connected to the correct network.",
        networkError |-> "Network Mismatch", network |-> FALSE]
  ELSE [depositCheckError |-> "Unable to check deposit status. Will retry automatically.",
        networkError |-> "Unknown Error", network |-> FALSE]

MaxAutoRetries == 3
BackoffBaseMs == 1000
Pow2(n) == IF n = 0 THEN 1 ELSE IF n = 1 THEN 2 ELSE IF n = 2 THEN 4 ELSE IF n = 3 THEN 8 ELSE 16
\* Math.pow(2, retryCount) * 1000
\* a backoff that grows by the base delay with each attempt
BackoffDelayLinear(rc) == (rc + 1) * BackoffBaseMs
BackoffDelay(rc) == Pow2(rc) * BackoffBaseMs

(***************************************************************************)
(* The failures each await can end in, after the wrapper of contracts.ts   *)
(* and the catch block of the handler have both acted on what was thrown.  *)
(* `rejected` records that what was thrown is the wallet's user-rejection. *)
(***************************************************************************)
ConfigMissing == Err("NEXT_PUBLIC_SECURITY_DEPOSIT_POOL_ADDRESS environment variable is required")
PoolNotConfigured == Err("Security deposit pool contract address not configured")
WalletNotConnected == Err("Wallet not connected")

\* createContractUtils / getFlatDepositAmount / getUSDTBalance[/getUSDTAllowance]
PrepareThrown ==
  {WrapCreateContractUtils(e) : e \in RawErrors \cup {WalletNotConnected}}
    \cup {WrapGetFlatDepositAmount(e) : e \in RawErrors}
    \cup {WrapGetUSDTBalance(e) : e \in RawErrors}
ApprovePrepareFailures == {ApproveCatch(e) : e \in PrepareThrown}
ApproveConfigFailure == ApproveCatch(WrapCreateContractUtils(ConfigMissing))
DepositPrepareFailures ==
  {DepositCatch(e) : e \in PrepareThrown \cup {WrapGetUSDTAllowance(x) : x \in RawErrors}}
DepositConfigFailure == DepositCatch(WrapCreateContractUtils(ConfigMissing))

\* approveUSDT(amount) / deposit(): the wallet prompt and the submission
ApproveSubmitFailures ==
  {[rejected |-> e \in RawUserRejected, set |-> ApproveCatch(WrapApproveUSDT(e))] : e \in RawErrors}
DepositSubmitFailures ==
  {[rejected |-> e \in RawUserRejected, set |-> DepositCatch(WrapDeposit(e))] : e \in RawErrors}

\* tx.wait(): what it throws reaches the catch block unwrapped
SettleErrors == (RawErrors \ RawUserRejected) \cup {Err("transaction execution reverted")}
ApproveWaitFailures == {ApproveCatch(e) : e \in SettleErrors}
DepositWaitFailures == {DepositCatch(e) : e \in SettleErrors}

\* createReadOnlyContractUtils / hasDeposited
StatusThrown ==
  {WrapCreateReadOnlyContractUtils(e) : e \in RawErrors \cup {Err("Public client not available")}}
    \cup {WrapHasDeposited(e) : e \in RawErrors}
StatusFailures == {StatusCatch(e) : e \in StatusThrown}
StatusConfigFailure == StatusCatch(PoolNotConfigured)

(***************************************************************************)
(* The environment (wallet, user, RPC node, ledger) is explored one        *)
(* scenario at a time.  A scenario says which addresses connect, whether   *)
(* the pool address is configured, whether the session changes after the   *)
(* first connection, how status reads fail, which ledger facts change by  *)
(* other hands, and how many reads and writes are in flight at once.       *)
(* The program's handlers are the same in every scenario.                  *)
(***************************************************************************)
\* the RPC node cannot be reached while hasDeposited() is awaited
NodeUnreachable == StatusCatch(WrapHasDeposited(Err("could not detect network")))

Scenarios == {
  [name |-> "transactions", addrs |-> {"A"}, configured |-> TRUE, session |-> FALSE,
   readFailures |-> {}, ledger |-> {"deposit"},
   maxReads |-> MaxReads, maxWrites |-> MaxWrites],
  [name |-> "recovery", addrs |-> {"A"}, configured |-> TRUE, session |-> FALSE,
   readFailures |-> {NodeUnreachable}, ledger |-> {"deposit", "allowance"},
   maxReads |-> MaxReads, maxWrites |-> 1],
  [name |-> "sessions", addrs |-> Addrs, configured |-> TRUE, session |-> TRUE,
   readFailures |-> {NodeUnreachable}, ledger |-> {"deposit"},
   maxReads |-> MaxReads, maxWrites |-> 0],
  [name |-> "handover", addrs |-> Addrs, configured |-> TRUE, session |-> TRUE,
   readFailures |-> {}, ledger |-> {},
   maxReads |-> 1, maxWrites |-> 1],
  [name |-> "retries", addrs |-> {"A"}, configured |-> TRUE, session |-> TRUE,
   readFailures |-> StatusFailures, ledger |-> {"deposit"},
   maxReads |-> MaxReads, maxWrites |-> 0],
  [name |-> "unconfigured", addrs |-> {"A"}, configured |-> FALSE, session |-> TRUE,
   readFailures |-> {}, ledger |-> {},
   maxReads |-> 1, maxWrites |-> 1] }

(***************************************************************************)
(* State.                                                                  *)
(***************************************************************************)
VARIABLES
  poolConfigured,    \* CONTRACT_ADDRESSES.SECURITY_DEPOSIT_POOL is set
  address,           \* useAccount(): the connected address, Null when none
  chainOk,           \* chainId === baseSepolia.id
  hasDeposited,      \* "null" | "true" | "false"
  depositCheckError,
  approvalStatus,
  depositStatus,
  error,             \* (networkError is set beside error and depositCheckError
                     \*  and never read: the model does not carry it)
  retryCount,
  polling,           \* pollingIntervalRef.current is an interval
  cdsDepositStatus,  \* depositStatus as the memoised checkDepositStatus captured it
  reads,             \* checkDepositStatus invocations suspended at an await (a bag)
  timers,            \* backoff setTimeout callbacks not yet run (a bag)
  writes,            \* handleApprove / handleDeposit invocations suspended at an await (a bag)
  allowance,         \* ledger: USDT allowance of each owner for the pool
  deposited,         \* ledger: the owners with hasDeposited = true
  observed,          \* history: the addresses a status read returned true for
  scenario           \* which moves the environment makes in this behaviour

react == <<hasDeposited, depositCheckError, approvalStatus, depositStatus, error,
           retryCount, polling, cdsDepositStatus>>
vars == <<poolConfigured, address, chainOk, hasDeposited, depositCheckError,
          approvalStatus, depositStatus, error, retryCount, polling,
          cdsDepositStatus, reads, timers, writes, allowance, deposited, observed,
          scenario>>

Cur == [hasDeposited |-> hasDeposited, depositCheckError |-> depositCheckError,
        approvalStatus |-> approvalStatus, depositStatus |-> depositStatus,
        error |-> error, retryCount |-> retryCount]

\* bags of suspended invocations
BagAdd(b, r) == b (+) SetToBag({r})
BagRemove(b, r) == b (-) SetToBag({r})
RECURSIVE BagSum(_, _)
BagSum(b, S) == IF S = {} THEN 0
                ELSE LET r == CHOOSE x \in S : TRUE IN b[r] + BagSum(b, S \ {r})
MapBag(F(_), b) ==
  [x \in {F(r) : r \in DOMAIN b} |-> BagSum(b, {r \in DOMAIN b : F(r) = x})]

AllowanceOk(a) == allowance[a] >= flatDepositAmount

\* A checkDepositStatus invocation and the values its closure captured.
\* `seen` holds the answers the ledger may give to the call it awaits: the
\* value when the call was made (after this step's own ledger change, hence
\* the prime) and every value the ledger took since.
StatusRead(a, cas, cds, crc, isRetry) ==
  [addr |-> a, approvalStatus |-> cas, depositStatus |-> cds, retryCount |-> crc,
   isRetry |-> isRetry, phase |-> "hasDeposited", seen |-> {a \in deposited'}]

\* The ledger fact `phase` of owner `a` becomes v: every call in flight for
\* it may now answer v as well.
Witnessed(ops, a, phase, v) ==
  MapBag(LAMBDA r : IF r.addr = a /\ r.phase = phase
                    THEN [r EXCEPT !.seen = @ \cup {v}] ELSE r, ops)

(***************************************************************************)
(* checkDepositStatus(userAddress, isRetry) up to its first await, called  *)
(* through a closure that captured (cas, cds, crc): it clears the status   *)
(* errors and leaves a read in flight, or, with no pool address, throws    *)
(* into its own catch block at once.                                       *)
(***************************************************************************)
CheckDepositStatus(st, rd, a, cas, cds, crc, isRetry) ==
  IF poolConfigured
  THEN [st |-> [st EXCEPT !.depositCheckError = Null],
        rd |-> BagAdd(rd, StatusRead(a, cas, cds, crc, isRetry))]
  ELSE [st |-> [st EXCEPT !.depositCheckError = StatusConfigFailure.depositCheckError,
                          !.hasDeposited = Null],
        rd |-> rd]

(***************************************************************************)
(* One render after a batch of state updates `st`, with the session values *)
(* (a, c) and the reads in flight rd.  checkDepositStatus is re-created    *)
(* when approvalStatus or retryCount changed (its dependencies are         *)
(* [checkApprovalStatus, retryCount]) and then captures the depositStatus  *)
(* of this render; the polling effect runs when that callback or the       *)
(* session changed: its cleanup stops the interval, its body either starts *)
(* polling (an immediate read and a new interval) or resets the state.     *)
(***************************************************************************)
Commit(st, a, c, rd) ==
  LET recreated == st.approvalStatus # approvalStatus \/ st.retryCount # retryCount
      cds == IF recreated THEN st.depositStatus ELSE cdsDepositStatus
      effectRuns == recreated \/ a # address \/ c # chainOk
      started == CheckDepositStatus(st, rd, a, st.approvalStatus, cds, st.retryCount, FALSE)
  IN /\ address' = a
     /\ chainOk' = c
     /\ error' = st.error
     /\ retryCount' = st.retryCount
     /\ IF ~effectRuns
        THEN /\ hasDeposited' = st.hasDeposited
             /\ depositCheckError' = st.depositCheckError
             /\ approvalStatus' = st.approvalStatus
             /\ depositStatus' = st.depositStatus
             /\ cdsDepositStatus' = cds
             /\ polling' = polling
             /\ reads' = rd
        ELSE IF a # Null /\ c
        THEN \* startDepositStatusPolling(address)
             /\ BagCardinality(started.rd) <= scenario.maxReads
             /\ hasDeposited' = started.st.hasDeposited
             /\ depositCheckError' = started.st.depositCheckError
             /\ approvalStatus' = st.approvalStatus
             /\ depositStatus' = st.depositStatus
             /\ cdsDepositStatus' = cds
             /\ polling' = TRUE
             /\ reads' = started.rd
        ELSE \* stopDepositStatusPolling() and the reset of the else branch
             /\ hasDeposited' = Null
             /\ depositCheckError' = Null
             /\ approvalStatus' = "idle"
             /\ depositStatus' = "idle"
             /\ cdsDepositStatus' = IF st.approvalStatus # "idle" THEN "idle" ELSE cds
             /\ polling' = FALSE
             /\ reads' = rd

\* the state after Home is first rendered, in one of the scenarios S
StartIn(S) ==
  /\ scenario \in S
  /\ poolConfigured = scenario.configured
  /\ address = Null
  /\ chainOk = TRUE
  /\ hasDeposited = Null
  /\ depositCheckError = Null
  /\ approvalStatus = "idle"
  /\ depositStatus = "idle"
  /\ error = Null
  /\ retryCount = 0
  /\ polling = FALSE
  /\ cdsDepositStatus = "idle"
  /\ reads = EmptyBag
  /\ timers = EmptyBag
  /\ writes = EmptyBag
  /\ allowance \in [Addrs -> AllowanceValues]
  /\ \A a \in Addrs \ scenario.addrs : allowance[a] = 0
  /\ deposited = {}
  /\ observed = {}

Init == StartIn(Scenarios)

(***************************************************************************)
(* The session provider: connect, disconnect, account switch, network      *)
(* change.                                                                 *)
(***************************************************************************)
SessionUnchanged == UNCHANGED <<scenario, poolConfigured, timers, writes, allowance, deposited, observed>>

Connect(a) ==
  /\ address = Null /\ a \in scenario.addrs
  /\ SessionUnchanged
  /\ Commit(Cur, a, chainOk, reads)

Disconnect ==
  /\ address # Null /\ scenario.session
  /\ SessionUnchanged
  /\ Commit(Cur, Null, chainOk, reads)

SwitchAccount(a) ==
  /\ address # Null /\ a \in scenario.addrs /\ scenario.session
  /\ a # address
  /\ SessionUnchanged
  /\ Commit(Cur, a, chainOk, reads)

ChainChange ==
  /\ scenario.session
  /\ SessionUnchanged
  /\ Commit(Cur, address, ~chainOk, reads)

(***************************************************************************)
(* The ledger changes by other hands: the owner deposits from elsewhere,   *)
(* or changes the allowance.                                               *)
(***************************************************************************)
LedgerDeposit(a) ==
  /\ "deposit" \in scenario.ledger /\ a \in scenario.addrs
  /\ a \notin deposited
  /\ deposited' = deposited \cup {a}
  /\ reads' = Witnessed(reads, a, "hasDeposited", TRUE)
  /\ UNCHANGED <<scenario, poolConfigured, address, chainOk, react, timers, writes, allowance, observed>>

LedgerAllowance(a, v) ==
  /\ "allowance" \in scenario.ledger /\ a \in scenario.addrs
  /\ v # allowance[a]
  /\ allowance' = [allowance EXCEPT ![a] = v]
  /\ reads' = Witnessed(reads, a, "allowance", v >= flatDepositAmount)
  /\ writes' = Witnessed(writes, a, "verify", v >= flatDepositAmount)
  /\ UNCHANGED <<scenario, poolConfigured, address, chainOk, react, timers, deposited, observed>>

(***************************************************************************)
(* The status reads.                                                       *)
(***************************************************************************)
BoolStr(b) == IF b THEN "true" ELSE "false"

\* setInterval(() => checkDepositStatus(userAddress), 30000): the interval
\* holds the callback of the render whose effect created it, which is the
\* current one, since the effect runs again whenever the callback changes.
Tick ==
  /\ UNCHANGED <<scenario, poolConfigured, timers, writes, allowance, deposited, observed>>
  /\ polling
  /\ LET c == CheckDepositStatus(Cur, reads, address, approvalStatus,
                                 cdsDepositStatus, retryCount, FALSE)
     IN /\ BagCardinality(c.rd) <= scenario.maxReads
        /\ Commit(c.st, address, chainOk, c.rd)

\* Variants of StatusReturns that also write depositStatus: one mirrors the
\* ledger's answer into it, one forces success when the answer is true.
StatusReturnsMirroring(r, d) ==
  /\ UNCHANGED <<scenario, poolConfigured, timers, writes, allowance, deposited>>
  /\ BagIn(r, reads) /\ r.phase = "hasDeposited" /\ d \in r.seen
  /\ LET goOn == ~d /\ r.approvalStatus # "pending" /\ r.depositStatus # "pending"
         next == [r EXCEPT !.phase = "allowance", !.seen = {AllowanceOk(r.addr)}]
         rd == IF goOn THEN BagAdd(BagRemove(reads, r), next) ELSE BagRemove(reads, r)
     IN Commit([Cur EXCEPT !.hasDeposited = BoolStr(d), !.retryCount = 0,
                           !.depositStatus = IF d THEN "success" ELSE "idle"],
               address, chainOk, rd)
  /\ observed' = IF d THEN observed \cup {r.addr} ELSE observed
StatusReturnsForcing(r, d) ==
  /\ UNCHANGED <<scenario, poolConfigured, timers, writes, allowance, deposited>>
  /\ BagIn(r, reads) /\ r.phase = "hasDeposited" /\ d \in r.seen
  /\ LET goOn == ~d /\ r.approvalStatus # "pending" /\ r.depositStatus # "pending"
         next == [r EXCEPT !.phase = "allowance", !.seen = {AllowanceOk(r.addr)}]
         rd == IF goOn THEN BagAdd(BagRemove(reads, r), next) ELSE BagRemove(reads, r)
     IN Commit([Cur EXCEPT !.hasDeposited = BoolStr(d), !.retryCount = 0,
                           !.depositStatus = IF d THEN "success" ELSE @],
               address, chainOk, rd)
  /\ observed' = IF d THEN observed \cup {r.addr} ELSE observed

\* await contractUtils.hasDeposited(userAddress) returns d
StatusReturns(r, d) ==
  /\ UNCHANGED <<scenario, poolConfigured, timers, writes, allowance, deposited>>
  /\ BagIn(r, reads) /\ r.phase = "hasDeposited" /\ d \in r.seen
  /\ LET goOn == ~d /\ r.approvalStatus # "pending" /\ r.depositStatus # "pending"
         next == [r EXCEPT !.phase = "allowance", !.seen = {AllowanceOk(r.addr)}]
         rd == IF goOn THEN BagAdd(BagRemove(reads, r), next) ELSE BagRemove(reads, r)
     IN Commit([Cur EXCEPT !.hasDeposited = BoolStr(d), !.retryCount = 0],
               address, chainOk, rd)
  /\ observed' = IF d THEN observed \cup {r.addr} ELSE observed

\* createReadOnlyContractUtils() or hasDeposited() throws
StatusThrows(r, f) ==
  /\ UNCHANGED <<scenario, poolConfigured, writes, allowance, deposited, observed>>
  /\ f \in scenario.readFailures
  /\ BagIn(r, reads) /\ r.phase = "hasDeposited"
  /\ LET backoff == f.network /\ ~r.isRetry /\ r.retryCount < MaxAutoRetries
     IN /\ timers' = IF backoff
                     THEN BagAdd(timers, [addr |-> r.addr, approvalStatus |-> r.approvalStatus,
                                          depositStatus |-> r.depositStatus,
                                          retryCount |-> r.retryCount,
                                          delay |-> BackoffDelay(r.retryCount)])
                     ELSE timers
        /\ BagCardinality(timers') <= MaxTimers
  /\ Commit([Cur EXCEPT !.depositCheckError = f.depositCheckError,
                        !.hasDeposited = Null],
            address, chainOk, BagRemove(reads, r))

\* setTimeout(() => { setRetryCount(prev => prev + 1); checkDepositStatus(userAddress, true) })
BackoffFires(t) ==
  /\ UNCHANGED <<scenario, poolConfigured, writes, allowance, deposited, observed>>
  /\ BagIn(t, timers)
  /\ retryCount < MaxRetryCount
  /\ timers' = BagRemove(timers, t)
  /\ LET c == CheckDepositStatus([Cur EXCEPT !.retryCount = retryCount + 1], reads, t.addr,
                                 t.approvalStatus, t.depositStatus, t.retryCount, TRUE)
     IN Commit(c.st, address, chainOk, c.rd)
  /\ BagCardinality(reads') <= scenario.maxReads

\* checkApprovalStatus: the two reads of Promise.all return
AllowanceReturns(r, ok) ==
  /\ UNCHANGED <<scenario, poolConfigured, timers, writes, allowance, deposited, observed>>
  /\ BagIn(r, reads) /\ r.phase = "allowance" /\ ok \in r.seen
  /\ Commit(IF r.approvalStatus \in {"idle", "failed"}
            THEN [Cur EXCEPT !.approvalStatus = IF ok THEN "approved" ELSE "idle"]
            ELSE Cur,
            address, chainOk, BagRemove(reads, r))

\* checkApprovalStatus: a read throws, which its catch block only logs
AllowanceThrows(r) ==
  /\ UNCHANGED <<scenario, poolConfigured, timers, writes, allowance, deposited, observed>>
  /\ scenario.readFailures # {}
  /\ BagIn(r, reads) /\ r.phase = "allowance"
  /\ Commit(Cur, address, chainOk, BagRemove(reads, r))

\* a manual retry that resets the counter and the error and leaves the read
\* to the next tick of the interval
ClickRetryStatusDeferred ==
  /\ UNCHANGED <<scenario, poolConfigured, timers, writes, allowance, deposited, observed>>
  /\ address # Null /\ chainOk /\ depositCheckError # Null
  /\ Commit([Cur EXCEPT !.retryCount = 0, !.depositCheckError = Null], address, chainOk, reads)
  /\ BagCardinality(reads') <= scenario.maxReads

\* retryDepositStatusCheck, the Retry button of the status error panel
ClickRetryStatus ==
  /\ UNCHANGED <<scenario, poolConfigured, timers, writes, allowance, deposited, observed>>
  /\ address # Null /\ chainOk /\ depositCheckError # Null
  /\ LET c == CheckDepositStatus([Cur EXCEPT !.retryCount = 0], reads, address,
                                 approvalStatus, cdsDepositStatus, retryCount, FALSE)
     IN Commit(c.st, address, chainOk, c.rd)
  /\ BagCardinality(reads') <= scenario.maxReads

(***************************************************************************)
(* The handlers as the buttons call them, up to their first await.  A      *)
(* click runs the callbacks of the current render, so they see the current *)
(* address and approvalStatus.                                             *)
(***************************************************************************)
ApproveCall(a, cas) ==
  [kind |-> "approve", addr |-> a, approvalStatus |-> cas, phase |-> "prepare", seen |-> {}]
DepositCall(a) ==
  [kind |-> "deposit", addr |-> a, approvalStatus |-> "approved", phase |-> "prepare", seen |-> {}]

\* handleApprove: its checkApprovalStatus is the one of the render of the
\* click, which captured the approvalStatus of that render.
HandleApprove(st, wr) ==
  IF address = Null
  THEN [st |-> st, wr |-> wr]
  ELSE [st |-> [st EXCEPT !.approvalStatus = "pending", !.error = Null],
        wr |-> BagAdd(wr, ApproveCall(address, approvalStatus))]

\* a handleDeposit without the approvalStatus guard
HandleDepositUngated(st, wr) ==
  IF address = Null
  THEN [st |-> st, wr |-> wr]
  ELSE [st |-> [st EXCEPT !.depositStatus = "pending", !.error = Null],
        wr |-> BagAdd(wr, DepositCall(address))]

HandleDeposit(st, wr) ==
  IF address = Null \/ approvalStatus # "approved"
  THEN [st |-> st, wr |-> wr]
  ELSE [st |-> [st EXCEPT !.depositStatus = "pending", !.error = Null],
        wr |-> BagAdd(wr, DepositCall(address))]

\* a close that also takes a failed operation back to idle
CloseErrorPopupResetting(st) ==
  [st EXCEPT !.error = Null,
             !.approvalStatus = IF @ = "failed" THEN "idle" ELSE @,
             !.depositStatus = IF @ = "failed" THEN "idle" ELSE @]
CloseErrorPopup(st) == [st EXCEPT !.error = Null]

\* a retry that leaves the error to the popup's onClose
RetryTransactionKeepingError(st, wr) ==
  IF approvalStatus = "failed" THEN HandleApprove(st, wr)
  ELSE IF depositStatus = "failed" THEN HandleDeposit(st, wr)
  ELSE [st |-> st, wr |-> wr]

RetryTransaction(st, wr) ==
  LET cleared == [st EXCEPT !.error = Null]
  IN IF approvalStatus = "failed" THEN HandleApprove(cleared, wr)
     ELSE IF depositStatus = "failed" THEN HandleDeposit(cleared, wr)
     ELSE [st |-> cleared, wr |-> wr]

\* ActionButtons and the conditions under which Home renders it
isAnyTransactionPending == approvalStatus = "pending" \/ depositStatus = "pending"
\* an approve button that stays enabled once approved
isApproveButtonDisabledWhilePending == isAnyTransactionPending
isApproveButtonDisabled == isAnyTransactionPending \/ approvalStatus = "approved"
\* a deposit button that looks at approvalStatus alone
isDepositButtonDisabledUntilApproved == approvalStatus # "approved"
isDepositButtonDisabled == approvalStatus # "approved" \/ depositStatus = "pending"
ActionButtonsShown == address # Null /\ chainOk /\ hasDeposited = "false"
\* ErrorPopup renders when error is set; its Retry button when showRetry
ErrorPopupShown == error # Null
showRetry == approvalStatus = "failed" \/ depositStatus = "failed"

WriteUnchanged == UNCHANGED <<scenario, poolConfigured, timers, allowance, deposited, observed>>

ClickApprove ==
  /\ ActionButtonsShown /\ ~isApproveButtonDisabled
  /\ WriteUnchanged
  /\ LET h == HandleApprove(Cur, writes)
     IN /\ BagCardinality(h.wr) <= scenario.maxWrites
        /\ writes' = h.wr
        /\ Commit(h.st, address, chainOk, reads)

ClickDeposit ==
  /\ ActionButtonsShown /\ ~isDepositButtonDisabled
  /\ WriteUnchanged
  /\ LET h == HandleDeposit(Cur, writes)
     IN /\ BagCardinality(h.wr) <= scenario.maxWrites
        /\ writes' = h.wr
        /\ Commit(h.st, address, chainOk, reads)

\* ErrorPopup's Retry button: onRetry(); onClose()
ClickRetry ==
  /\ ErrorPopupShown /\ showRetry
  /\ WriteUnchanged
  /\ LET h == RetryTransaction(Cur, writes)
     IN /\ BagCardinality(h.wr) <= scenario.maxWrites
        /\ writes' = h.wr
        /\ Commit(CloseErrorPopup(h.st), address, chainOk, reads)

\* ErrorPopup's Close button, the Escape key, a click outside
ClickClose ==
  /\ ErrorPopupShown
  /\ WriteUnchanged
  /\ writes' = writes
  /\ Commit(CloseErrorPopup(Cur), address, chainOk, reads)

(***************************************************************************)
(* handleApprove after its first await.                                    *)
(***************************************************************************)
Suspended(w, kind, phase) == BagIn(w, writes) /\ w.kind = kind /\ w.phase = phase
Advance(w, phase) == BagAdd(BagRemove(writes, w), [w EXCEPT !.phase = phase])

\* a catch block that only logs what was thrown
ApproveFailsLoggingOnly(w, set) ==
  /\ WriteUnchanged
  /\ writes' = BagRemove(writes, w)
  /\ Commit(Cur, address, chainOk, reads)

ApproveFails(w, set) ==
  /\ WriteUnchanged
  /\ writes' = BagRemove(writes, w)
  /\ Commit([Cur EXCEPT !.approvalStatus = Set(set.approvalStatus, @),
                        !.error = Set(set.error, @)],
            address, chainOk, reads)

\* createContractUtils, getFlatDepositAmount or getUSDTBalance throws
ApprovePrepareThrows(w, f) ==
  /\ Suspended(w, "approve", "prepare")
  /\ f \in (IF poolConfigured THEN ApprovePrepareFailures ELSE {ApproveConfigFailure})
  /\ ApproveFails(w, f)

InsufficientBalanceMessage ==
  "Insufficient USDT balance. You need at least 0 USDT to complete the deposit."

\* a balance check that lets the approval through whatever the balance
ApproveBalanceShortSubmitting(w, bal) ==
  /\ Suspended(w, "approve", "prepare") /\ poolConfigured
  /\ bal < flatDepositAmount
  /\ WriteUnchanged
  /\ writes' = Advance(w, "submit")
  /\ Commit(Cur, address, chainOk, reads)

\* userBalance < depositAmount: no approval is submitted
ApproveBalanceShort(w, bal) ==
  /\ Suspended(w, "approve", "prepare") /\ poolConfigured
  /\ bal < flatDepositAmount
  /\ WriteUnchanged
  /\ writes' = BagRemove(writes, w)
  /\ Commit([Cur EXCEPT !.approvalStatus = "failed", !.error = InsufficientBalanceMessage],
            address, chainOk, reads)

\* an approval submitted without comparing the balance with the amount
ApprovePreparedUnchecked(w, bal) ==
  /\ Suspended(w, "approve", "prepare") /\ poolConfigured
  /\ WriteUnchanged
  /\ writes' = Advance(w, "submit")
  /\ Commit(Cur, address, chainOk, reads)

\* the reads returned and the balance suffices: approveUSDT(depositAmount) is called
ApprovePrepared(w, bal) ==
  /\ Suspended(w, "approve", "prepare") /\ poolConfigured
  /\ bal >= flatDepositAmount
  /\ WriteUnchanged
  /\ writes' = Advance(w, "submit")
  /\ Commit(Cur, address, chainOk, reads)

\* approveUSDT throws: the wallet prompt was declined, or the submission failed
ApproveSubmitThrows(w, f) ==
  /\ Suspended(w, "approve", "submit")
  /\ ApproveFails(w, f.set)

ApproveSubmitted(w) ==
  /\ Suspended(w, "approve", "submit")
  /\ WriteUnchanged
  /\ writes' = Advance(w, "wait")
  /\ Commit(Cur, address, chainOk, reads)

\* approveTx.wait() throws
ApproveWaitThrows(w, f) ==
  /\ Suspended(w, "approve", "wait")
  /\ ApproveFails(w, f)

\* approveTx.wait() returns: the allowance is set on the ledger, the state
\* becomes approved and checkApprovalStatus(address) is awaited
ApproveSettles(w) ==
  /\ Suspended(w, "approve", "wait")
  /\ allowance' = [allowance EXCEPT ![w.addr] = flatDepositAmount]
  /\ UNCHANGED <<scenario, poolConfigured, timers, deposited, observed>>
  /\ writes' = BagAdd(BagRemove(Witnessed(writes, w.addr, "verify", TRUE), w),
                      [w EXCEPT !.phase = "verify", !.seen = {TRUE}])
  /\ Commit([Cur EXCEPT !.approvalStatus = "approved"], address, chainOk,
            Witnessed(reads, w.addr, "allowance", TRUE))

\* the checkApprovalStatus awaited by handleApprove: its reads return
ApproveVerifyReturns(w, ok) ==
  /\ Suspended(w, "approve", "verify") /\ ok \in w.seen
  /\ WriteUnchanged
  /\ writes' = BagRemove(writes, w)
  /\ Commit(IF w.approvalStatus \in {"idle", "failed"}
            THEN [Cur EXCEPT !.approvalStatus = IF ok THEN "approved" ELSE "idle"]
            ELSE Cur,
            address, chainOk, reads)

ApproveVerifyThrows(w) ==
  /\ Suspended(w, "approve", "verify")
  /\ WriteUnchanged
  /\ writes' = BagRemove(writes, w)
  /\ Commit(Cur, address, chainOk, reads)

(***************************************************************************)
(* handleDeposit after its first await.                                    *)
(***************************************************************************)
DepositFails(w, set) ==
  /\ WriteUnchanged
  /\ writes' = BagRemove(writes, w)
  /\ Commit([Cur EXCEPT !.depositStatus = Set(set.depositStatus, @),
                        !.approvalStatus = Set(set.approvalStatus, @),
                        !.error = Set(set.error, @),
                        !.hasDeposited = Set(set.hasDeposited, @)],
            address, chainOk, reads)

\* createContractUtils, getFlatDepositAmount, getUSDTAllowance or getUSDTBalance throws
DepositPrepareThrows(w, f) ==
  /\ Suspended(w, "deposit", "prepare")
  /\ f \in (IF poolConfigured THEN DepositPrepareFailures ELSE {DepositConfigFailure})
  /\ DepositFails(w, f)

\* an allowance check that leaves approvalStatus as it is
DepositAllowanceShortKeepingApproval(w) ==
  /\ Suspended(w, "deposit", "prepare") /\ poolConfigured
  /\ ~AllowanceOk(w.addr)
  /\ WriteUnchanged
  /\ writes' = BagRemove(writes, w)
  /\ Commit([Cur EXCEPT !.depositStatus = "failed",
                        !.error = "USDT allowance is insufficient. Please approve USDT spending again."],
            address, chainOk, reads)

\* currentAllowance < depositAmount
DepositAllowanceShort(w) ==
  /\ Suspended(w, "deposit", "prepare") /\ poolConfigured
  /\ ~AllowanceOk(w.addr)
  /\ WriteUnchanged
  /\ writes' = BagRemove(writes, w)
  /\ Commit([Cur EXCEPT !.depositStatus = "failed",
                        !.error = "USDT allowance is insufficient. Please approve USDT spending again.",
                        !.approvalStatus = "idle"],
            address, chainOk, reads)

\* userBalance < depositAmount
DepositBalanceShort(w, bal) ==
  /\ Suspended(w, "deposit", "prepare") /\ poolConfigured
  /\ AllowanceOk(w.addr) /\ bal < flatDepositAmount
  /\ WriteUnchanged
  /\ writes' = BagRemove(writes, w)
  /\ Commit([Cur EXCEPT !.depositStatus = "failed", !.error = InsufficientBalanceMessage],
            address, chainOk, reads)

\* a deposit that trusts approvalStatus and does not read the allowance
DepositPreparedTrustingApproval(w, bal) ==
  /\ Suspended(w, "deposit", "prepare") /\ poolConfigured
  /\ bal >= flatDepositAmount
  /\ WriteUnchanged
  /\ writes' = Advance(w, "submit")
  /\ Commit(Cur, address, chainOk, reads)

\* both checks pass: contractUtils.deposit() is called
DepositPrepared(w, bal) ==
  /\ Suspended(w, "deposit", "prepare") /\ poolConfigured
  /\ AllowanceOk(w.addr) /\ bal >= flatDepositAmount
  /\ WriteUnchanged
  /\ writes' = Advance(w, "submit")
  /\ Commit(Cur, address, chainOk, reads)

\* deposit() throws: the wallet prompt was declined, or the submission failed
DepositSubmitThrows(w, f) ==
  /\ Suspended(w, "deposit", "submit")
  /\ DepositFails(w, f.set)

DepositSubmitted(w) ==
  /\ Suspended(w, "deposit", "submit")
  /\ WriteUnchanged
  /\ writes' = Advance(w, "wait")
  /\ Commit(Cur, address, chainOk, reads)

\* depositTx.wait() throws
DepositWaitThrows(w, f) ==
  /\ Suspended(w, "deposit", "wait")
  /\ DepositFails(w, f)

\* a settlement that leaves the hasDeposited flag to the next status read
DepositSettlesAwaitingPoll(w) ==
  /\ Suspended(w, "deposit", "wait")
  /\ AllowanceOk(w.addr) /\ w.addr \notin deposited
  /\ deposited' = deposited \cup {w.addr}
  /\ allowance' = [allowance EXCEPT ![w.addr] = 0]
  /\ UNCHANGED <<scenario, poolConfigured, timers, observed>>
  /\ writes' = BagRemove(Witnessed(writes, w.addr, "verify", FALSE), w)
  /\ Commit([Cur EXCEPT !.depositStatus = "success"],
            address, chainOk,
            Witnessed(Witnessed(reads, w.addr, "hasDeposited", TRUE),
                      w.addr, "allowance", FALSE))

\* depositTx.wait() returns: the pool took the deposit from the allowance
DepositSettles(w) ==
  /\ Suspended(w, "deposit", "wait")
  /\ AllowanceOk(w.addr) /\ w.addr \notin deposited
  /\ deposited' = deposited \cup {w.addr}
  /\ allowance' = [allowance EXCEPT ![w.addr] = 0]
  /\ UNCHANGED <<scenario, poolConfigured, timers, observed>>
  /\ writes' = BagRemove(Witnessed(writes, w.addr, "verify", FALSE), w)
  /\ Commit([Cur EXCEPT !.depositStatus = "success", !.hasDeposited = "true"],
            address, chainOk,
            Witnessed(Witnessed(reads, w.addr, "hasDeposited", TRUE),
                      w.addr, "allowance", FALSE))

(***************************************************************************)
(* The next-state relation.                                                *)
(***************************************************************************)
Reads == DOMAIN reads
Writes == DOMAIN writes

Next ==
  \/ \E a \in Addrs : Connect(a)
  \/ Disconnect
  \/ \E a \in Addrs : SwitchAccount(a)
  \/ ChainChange
  \/ \E a \in Addrs : LedgerDeposit(a)
  \/ \E a \in Addrs, v \in AllowanceValues : LedgerAllowance(a, v)
  \/ Tick
  \/ \E r \in Reads, d \in BOOLEAN : StatusReturns(r, d)
  \/ \E r \in Reads, f \in StatusFailures : StatusThrows(r, f)
  \/ \E t \in DOMAIN timers : BackoffFires(t)
  \/ \E r \in Reads, ok \in BOOLEAN : AllowanceReturns(r, ok)
  \/ \E r \in Reads : AllowanceThrows(r)
  \/ ClickRetryStatus
  \/ ClickApprove
  \/ ClickDeposit
  \/ ClickRetry
  \/ ClickClose
  \/ \E w \in Writes, f \in ApprovePrepareFailures \cup {ApproveConfigFailure} : ApprovePrepareThrows(w, f)
  \/ \E w \in Writes, bal \in BalanceValues : ApproveBalanceShort(w, bal)
  \/ \E w \in Writes, bal \in BalanceValues : ApprovePrepared(w, bal)
  \/ \E w \in Writes, f \in ApproveSubmitFailures : ApproveSubmitThrows(w, f)
  \/ \E w \in Writes : ApproveSubmitted(w)
  \/ \E w \in Writes, f \in ApproveWaitFailures : ApproveWaitThrows(w, f)
  \/ \E w \in Writes : ApproveSettles(w)
  \/ \E w \in Writes, ok \in BOOLEAN : ApproveVerifyReturns(w, ok)
  \/ \E w \in Writes : ApproveVerifyThrows(w)
  \/ \E w \in Writes, f \in DepositPrepareFailures \cup {DepositConfigFailure} : DepositPrepareThrows(w, f)
  \/ \E w \in Writes : DepositAllowanceShort(w)
  \/ \E w \in Writes, bal \in BalanceValues : DepositBalanceShort(w, bal)
  \/ \E w \in Writes, bal \in BalanceValues : DepositPrepared(w, bal)
  \/ \E w \in Writes, f \in DepositSubmitFailures : DepositSubmitThrows(w, f)
  \/ \E w \in Writes : DepositSubmitted(w)
  \/ \E w \in Writes, f \in DepositWaitFailures : DepositWaitThrows(w, f)
  \/ \E w \in Writes : DepositSettles(w)

Spec == Init /\ [][Next]_vars

(***************************************************************************)
(* Steps the properties speak of.                                          *)
(***************************************************************************)
\* a reconciliation read (checkDepositStatus, with the checkApprovalStatus it
\* calls) resumes and applies what its ledger call returned or threw
ReconciliationOf(r) ==
  \/ \E d \in BOOLEAN : StatusReturns(r, d) \/ AllowanceReturns(r, d)
  \/ \E f \in StatusFailures : StatusThrows(r, f)
  \/ AllowanceThrows(r)
ReconciliationApplied == \E r \in Reads : ReconciliationOf(r)
\* the checkApprovalStatus that handleApprove awaits after settlement resumes
VerificationOf(w) == ApproveVerifyThrows(w) \/ \E ok \in BOOLEAN : ApproveVerifyReturns(w, ok)
VerificationApplied == \E w \in Writes : VerificationOf(w)
\* a handleApprove / handleDeposit invocation passes its guard and suspends
WriteStarted == BagCardinality(writes') > BagCardinality(writes)
ApproveStarted ==
  \E w \in DOMAIN writes' : /\ w.kind = "approve" /\ w.phase = "prepare"
                            /\ CopiesIn(w, writes') > CopiesIn(w, writes)
\* the wallet prompt of approveUSDT / deposit is declined by the user
ApproveRejected ==
  \E w \in Writes, f \in ApproveSubmitFailures : f.rejected /\ ApproveSubmitThrows(w, f)
DepositRejected ==
  \E w \in Writes, f \in DepositSubmitFailures : f.rejected /\ DepositSubmitThrows(w, f)
SameSession == address' = address /\ chainOk' = chainOk
\* an identity is active: connected, on the required network
Active == address # Null /\ chainOk
\* a status read made for the active identity resumes with hasDeposited() = true
ObservedCommittedActive ==
  Active /\ \E r \in Reads : r.addr = address /\ StatusReturns(r, TRUE)
\* behaviours in which one address only ever connects
SingleIdentity == Cardinality(scenario.addrs) = 1
\* the invocations of one owner between their start and their end
InFlight(a) == BagSum(writes, {w \in DOMAIN writes : w.addr = a})

(***************************************************************************)
(* Properties.                                                             *)
(***************************************************************************)
\* C1: with a single identity, at most one approve or deposit invocation of
\* it is in flight (started, and neither settled nor failed) at any time.
C1_OneWriteInFlight == SingleIdentity => \A a \in Addrs : InFlight(a) <= 1

\* C2: with a single identity, a reconciliation read whose result is applied
\* while approvalStatus or depositStatus is pending changes neither of the two.
C2_ReadKeepsPending ==
  [][SingleIdentity /\ ReconciliationApplied /\ isAnyTransactionPending
       => approvalStatus' = approvalStatus /\ depositStatus' = depositStatus]_vars

\* C3: with a single identity, no read (periodic or manual reconciliation, or
\* the verification read of handleApprove) applied while approvalStatus is
\* approved changes it.
C3_ApprovedSticky ==
  [][SingleIdentity /\ approvalStatus = "approved"
       /\ (ReconciliationApplied \/ VerificationApplied)
       => approvalStatus' = "approved"]_vars

\* C4: depositStatus becomes pending only in a step taken with approvalStatus
\* approved; in any other approvalStatus handleDeposit returns the state and
\* the invocations in flight as it was given them, and a retry that reaches
\* it (depositStatus failed, approvalStatus neither failed nor approved)
\* leaves depositStatus, approvalStatus, hasDeposited and the ledger calls in
\* flight unchanged, the error being the one retryTransaction itself cleared.
C4_DepositGate ==
  [][/\ depositStatus # "pending" /\ depositStatus' = "pending" => approvalStatus = "approved"
     /\ approvalStatus # "approved"
          => HandleDeposit(Cur, writes) = [st |-> Cur, wr |-> writes]
     /\ ClickRetry /\ depositStatus = "failed" /\ approvalStatus \notin {"failed", "approved"}
          => /\ depositStatus' = depositStatus /\ approvalStatus' = approvalStatus
             /\ hasDeposited' = hasDeposited /\ writes' = writes /\ reads' = reads
             /\ error' = Null]_vars
\* a handleDeposit invocation runs: it was let through with approvalStatus approved
C4_Witness ==
  /\ depositStatus = "pending" /\ approvalStatus = "approved"
  /\ \E w \in Writes : w.kind = "deposit" /\ w.phase = "prepare"

\* C5: approvalStatus becomes pending, and a handleApprove invocation starts,
\* only in a step taken with approvalStatus idle or failed.
C5_ApproveGate ==
  [][/\ approvalStatus # "pending" /\ approvalStatus' = "pending"
          => approvalStatus \in {"idle", "failed"}
     /\ ApproveStarted => approvalStatus \in {"idle", "failed"} /\ approvalStatus' = "pending"]_vars
\* a handleApprove invocation runs that was started from failed
C5_Witness ==
  /\ approvalStatus = "pending"
  /\ \E w \in Writes : w.kind = "approve" /\ w.phase = "prepare" /\ w.approvalStatus = "failed"

\* C6: when the user declines the wallet prompt of an approve (a deposit),
\* approvalStatus (depositStatus) is idle afterwards and no error is set.
C6_RejectionSilent ==
  [][/\ ApproveRejected => approvalStatus' = "idle" /\ error' = Null
     /\ DepositRejected => depositStatus' = "idle" /\ error' = Null]_vars

C8_SuccessTerminal ==
  [][SingleIdentity /\ depositStatus = "success" /\ SameSession
       => depositStatus' = "success"]_vars

\* C9 (as stated): a status read of the active identity that observes
\* hasDeposited() = true leaves depositStatus success.
C9_ObservedForcesSuccess == [][ObservedCommittedActive => depositStatus' = "success"]_vars
\* C9 (amended): a status read of the active identity that observes
\* hasDeposited() = true leaves the hasDeposited flag true and depositStatus
\* as it was.
C9_ObservedSetsFlag ==
  [][ObservedCommittedActive => hasDeposited' = "true" /\ depositStatus' = depositStatus]_vars
\* the active owner was observed committed with no deposit made from here
C9_Witness ==
  /\ Active /\ address \in observed /\ hasDeposited = "true" /\ depositStatus = "idle"

\* C10: with a single identity, no handleApprove or handleDeposit invocation
\* starts once a status read has observed hasDeposited() = true for it and
\* while the hasDeposited flag still says so.
C10_NoWriteAfterObserved ==
  [][SingleIdentity /\ WriteStarted
       => ~(address \in observed /\ hasDeposited = "true")]_vars

(***************************************************************************)
(* The reconciler: identities, stop and start, retries.                    *)
(***************************************************************************)
\* a checkDepositStatus invocation resumes from hasDeposited(): it returned or threw
StatusApplied(r) ==
  \/ \E d \in BOOLEAN : StatusReturns(r, d)
  \/ \E f \in StatusFailures : StatusThrows(r, f)
\* checkDepositStatus is called: one more read is in flight
ReadStarted == BagCardinality(reads') > BagCardinality(reads)
\* approveUSDT() or deposit() is called: a transaction goes to the wallet
SubmissionMade ==
  \E w \in Writes, bal \in BalanceValues : ApprovePrepared(w, bal) \/ DepositPrepared(w, bal)

\* C11: while identity B is active, a status read that was made for another
\* identity A and resumes now changes neither the hasDeposited flag nor the
\* status error.
C11_NoCrossIdentityLeak ==
  [][\A r \in Reads : Active /\ r.addr # address /\ StatusApplied(r)
       => hasDeposited' = hasDeposited /\ depositCheckError' = depositCheckError]_vars

\* C12: a read that resumes while polling is stopped changes none of the
\* hasDeposited flag, the status error, retryCount and approvalStatus.
C12_StoppedReadDiscarded ==
  [][~polling /\ ReconciliationApplied
       => /\ hasDeposited' = hasDeposited /\ depositCheckError' = depositCheckError
          /\ retryCount' = retryCount /\ approvalStatus' = approvalStatus]_vars

\* C13: when the connected address changes to a different one, approvalStatus
\* and depositStatus are idle and the hasDeposited flag is cleared afterwards.
C13_IdentityChangeResets ==
  [][address # Null /\ address' # Null /\ address' # address
       => approvalStatus' = "idle" /\ depositStatus' = "idle" /\ hasDeposited' = Null]_vars

C15_RetryCounterBounded == retryCount <= MaxAutoRetries

\* a status read resumes with a failure that checkDepositStatus classifies as
\* a network failure
NetworkFailureOf(r) == \E f \in StatusFailures : f.network /\ StatusThrows(r, f)
\* the backoff timers this step created
Scheduled == timers' (-) timers
\* one retry is scheduled for owner a after ms milliseconds
ScheduledOnce(a, ms) ==
  /\ BagCardinality(Scheduled) = 1
  /\ \A t \in BagToSet(Scheduled) : t.addr = a /\ t.delay = ms
DelayAtAttempt(k) == IF k = 0 THEN 1000 ELSE IF k = 1 THEN 2000 ELSE 4000

\* C16 (as stated): every status read that fails with a network failure at
\* attempt 0, 1 or 2 schedules exactly one retry, after 1 s, 2 s and 4 s, and
\* a failure at attempt 3 or later schedules none.
C16_EveryFailureSchedules ==
  [][\A r \in Reads : NetworkFailureOf(r)
       => IF r.retryCount < 3
          THEN ScheduledOnce(r.addr, DelayAtAttempt(r.retryCount))
          ELSE timers' = timers]_vars
\* C16 (amended): a status read that is not itself a backoff retry and fails
\* with a network failure at attempt 0, 1 or 2 (the retryCount it captured)
\* schedules exactly one retry, after 1 s, 2 s and 4 s; a failure at attempt
\* 3 or later, and the failure of a backoff retry, schedule none.
C16_BackoffSchedule ==
  [][\A r \in Reads : NetworkFailureOf(r)
       => IF ~r.isRetry /\ r.retryCount < 3
          THEN ScheduledOnce(r.addr, DelayAtAttempt(r.retryCount))
          ELSE timers' = timers]_vars
\* the reads at attempts 0, 1, 2 and 3 have failed: no retry is left
C16_Witness ==
  /\ Active /\ retryCount = 3 /\ reads = EmptyBag /\ timers = EmptyBag
  /\ \E f \in StatusFailures : f.network /\ depositCheckError = f.depositCheckError

\* C17: once retryCount has reached 3 and the last status read has failed
\* (none is in flight, no retry is scheduled), a status read starts only by retryDepositStatusCheck or by a change of
\* address or network.
C17_NoAutomaticReadAfterMax ==
  [][(/\ Active /\ retryCount >= MaxAutoRetries /\ depositCheckError # Null
      /\ reads = EmptyBag /\ timers = EmptyBag /\ ReadStarted)
       => ClickRetryStatus \/ ~SameSession]_vars

\* C18: a status read of the active identity that fails, no other read being
\* in flight, leaves a hasDeposited flag that was set as it is.
C18_FailureKeepsFlag ==
  [][\A r \in Reads :
       /\ Active /\ r.addr = address /\ hasDeposited # Null
       /\ BagCardinality(reads) = 1
       /\ \E f \in StatusFailures : StatusThrows(r, f)
       => hasDeposited' = hasDeposited]_vars

\* C19: at most one status read of an identity is in flight at any time.
C19_NoOverlappingReads ==
  \A a \in Addrs : BagSum(reads, {r \in DOMAIN reads : r.addr = a}) <= 1

\* C20: no backoff timer fires once polling has been stopped (the interval
\* cleared and the status error reset by the polling effect after the timer
\* was scheduled).
C20_StopCancelsTimers ==
  [][~polling /\ depositCheckError = Null
       => \A t \in DOMAIN timers : ~BackoffFires(t)]_vars

(***************************************************************************)
(* The outcomes of the handlers.                                           *)
(***************************************************************************)
\* the invocation is suspended at the reads the handler makes before it
\* submits: createContractUtils, getFlatDepositAmount, getUSDTAllowance,
\* getUSDTBalance
AwaitsLedgerRead(w) == w.phase = "prepare"
\* what the ledger throws for a deposit without allowance, and for a second
\* deposit of the same owner
InsufficientAllowanceRaw == Err("ERC20: insufficient allowance")
AlreadyDepositedRaw == Err("execution reverted: already deposited")
\* deposit() or depositTx.wait() throws e
DepositThrows(w, e) ==
  \/ DepositSubmitThrows(w, [rejected |-> e \in RawUserRejected,
                             set |-> DepositCatch(WrapDeposit(e))])
  \/ DepositWaitThrows(w, DepositCatch(e))
AllowanceShortMessages == {
  "USDT allowance is insufficient. Please approve USDT spending again.",
  "USDT allowance insufficient. Please approve USDT spending again." }

\* C21: with an identity active, a handleApprove invocation that finds the
\* balance below the deposit amount ends with approvalStatus failed and the
\* insufficient-balance error, and leaves no invocation behind: approveUSDT
\* is not called.
C21_BalanceShortFailsApprove ==
  [][\A w \in Writes, bal \in BalanceValues :
       Active /\ ApproveBalanceShort(w, bal)
       => /\ approvalStatus' = "failed" /\ error' = InsufficientBalanceMessage
          /\ writes' = BagRemove(writes, w)]_vars
\* an approve has ended on the balance check and nothing is in flight
C21_Witness ==
  /\ Active /\ approvalStatus = "failed" /\ depositStatus = "idle"
  /\ error = InsufficientBalanceMessage /\ writes = EmptyBag

\* C22 (as stated): an approve that ends on the balance check with balance
\* 100 and amount 150 does so without having awaited any ledger call.
C22_NoLedgerCalls ==
  [][\A w \in Writes : ApproveBalanceShort(w, 100) => ~AwaitsLedgerRead(w)]_vars
\* C22 (amended): with amount 150, an approve that finds balance 100 has
\* awaited the reads of the amount and the balance, ends with approvalStatus
\* failed and the insufficient-balance error without calling approveUSDT,
\* and no approve is ever submitted on a balance of 100.
C22_BalanceReadThenNoWrite ==
  [][\A w \in Writes :
       /\ Active /\ ApproveBalanceShort(w, 100)
            => /\ flatDepositAmount = 150 /\ AwaitsLedgerRead(w)
               /\ approvalStatus' = "failed" /\ error' = InsufficientBalanceMessage
               /\ \A x \in DOMAIN writes' : x.phase = "submit" => BagIn(x, writes)
       /\ ~ApprovePrepared(w, 100)]_vars
\* the balance check has failed an approve and no transaction is at the wallet
C22_Witness ==
  /\ approvalStatus = "failed" /\ error = InsufficientBalanceMessage
  /\ hasDeposited = "false" /\ \A w \in Writes : w.phase # "submit"

\* C23: when depositTx.wait() returns, depositStatus becomes success and the
\* hasDeposited flag true in that same step, and no status read has taken
\* part: the reads in flight stay in flight and none records an observation.
C23_SettlementPublishesFlag ==
  [][\A w \in Writes : DepositSettles(w)
       => /\ depositStatus' = "success" /\ hasDeposited' = "true"
          /\ observed' = observed
          /\ BagCardinality(reads') = BagCardinality(reads)]_vars
\* the flag is true by the settlement alone: no read has observed the deposit
C23_Witness ==
  /\ Active /\ depositStatus = "success" /\ hasDeposited = "true"
  /\ address \in deposited /\ address \notin observed

\* C24: a deposit that fails for want of allowance
\* (at handleDeposit's own check, or thrown by deposit() or depositTx.wait())
\* ends with depositStatus failed and approvalStatus idle, and the approve
\* button is not disabled.
C24_AllowanceFailureReopensApprove ==
  [][\A w \in Writes :
       DepositAllowanceShort(w) \/ DepositThrows(w, InsufficientAllowanceRaw)
       => /\ depositStatus' = "failed" /\ approvalStatus' = "idle"
          /\ error' \in AllowanceShortMessages
          /\ ~isApproveButtonDisabled']_vars
\* handleDeposit's check found the allowance short and the approve button is
\* offered again
C24_Witness ==
  /\ Active /\ hasDeposited = "false" /\ depositStatus = "failed"
  /\ approvalStatus = "idle" /\ ~isApproveButtonDisabled
  /\ error = "USDT allowance is insufficient. Please approve USDT spending again."

\* C25: a deposit of an owner who has already deposited, refused by the pool
\* for that reason, ends with depositStatus success and the hasDeposited
\* flag true.
C25_AlreadyDepositedIsSuccess ==
  [][\A w \in Writes :
       Active /\ w.addr = address /\ w.addr \in deposited
       /\ DepositThrows(w, AlreadyDepositedRaw)
       => depositStatus' = "success" /\ hasDeposited' = "true"]_vars

\* a handleDeposit invocation fails for a reason other than a user rejection,
\* a short allowance or an earlier deposit: a read or the client creation
\* before the submission throws, the balance is short, or deposit() or
\* depositTx.wait() throws something else
OtherDepositErrors ==
  RawErrors \ (RawUserRejected \cup {InsufficientAllowanceRaw, AlreadyDepositedRaw})
OtherDepositFailure(w) ==
  \/ \E f \in DepositPrepareFailures : DepositPrepareThrows(w, f)
  \/ \E bal \in BalanceValues : DepositBalanceShort(w, bal)
  \/ \E e \in OtherDepositErrors : DepositThrows(w, e)
\* a handleApprove / handleDeposit invocation fails, the wallet prompt not
\* having been declined
ApproveFailure(w) ==
  \/ \E f \in ApprovePrepareFailures \cup {ApproveConfigFailure} : ApprovePrepareThrows(w, f)
  \/ \E bal \in BalanceValues : ApproveBalanceShort(w, bal)
  \/ \E f \in ApproveSubmitFailures : ~f.rejected /\ ApproveSubmitThrows(w, f)
  \/ \E f \in ApproveWaitFailures : ApproveWaitThrows(w, f)
DepositFailure(w) ==
  \/ \E f \in DepositPrepareFailures \cup {DepositConfigFailure} : DepositPrepareThrows(w, f)
  \/ DepositAllowanceShort(w)
  \/ \E bal \in BalanceValues : DepositBalanceShort(w, bal)
  \/ \E f \in DepositSubmitFailures : ~f.rejected /\ DepositSubmitThrows(w, f)
  \/ \E f \in DepositWaitFailures : DepositWaitThrows(w, f)

\* C26: with an identity active, a deposit failure that is none of user
\* rejection, short allowance and earlier deposit leaves approvalStatus as
\* it was and ends with depositStatus failed and an error set.
C26_OtherFailureKeepsApproval ==
  [][\A w \in Writes : Active /\ OtherDepositFailure(w)
       => /\ approvalStatus' = approvalStatus
          /\ depositStatus' = "failed" /\ error' # Null]_vars

\* C27: the transaction error and the status error are never both set.
C27_OneErrorSurfaced == error = Null \/ depositCheckError = Null

\* C28: an approve failure other than a declined wallet prompt, with an
\* identity active, ends with approvalStatus failed and an error set; a
\* deposit failure other than a declined wallet prompt ends with
\* depositStatus failed and an error set.
C28_FailuresSurface ==
  [][\A w \in Writes :
       /\ Active /\ ApproveFailure(w) => approvalStatus' = "failed" /\ error' # Null
       /\ DepositFailure(w) => depositStatus' = "failed" /\ error' # Null]_vars
\* an approve has failed before or at its submission, not on the balance check
C28_Witness ==
  /\ Active /\ approvalStatus = "failed" /\ writes = EmptyBag
  /\ error \notin {Null, InsufficientBalanceMessage}

\* C29: without a pool address no polling interval is ever running.
C29_UnconfiguredNeverPolls == ~poolConfigured => ~polling

\* C30: a status read that is not a backoff retry, at attempt 0, 1 or 2,
\* whose client creation or hasDeposited() call fails for want of the
\* network or by a timeout, sets the network status error and schedules one
\* backoff retry.
NetworkErrors == {Err("could not detect network"), Err("request timeout")}
NetworkStatusFailure(r) ==
  \E e \in NetworkErrors :
    \/ StatusThrows(r, StatusCatch(WrapHasDeposited(e)))
    \/ StatusThrows(r, StatusCatch(WrapCreateReadOnlyContractUtils(e)))
C30_NetworkFailureRetries ==
  [][\A r \in Reads :
       Active /\ ~r.isRetry /\ r.retryCount < MaxAutoRetries /\ NetworkStatusFailure(r)
       => /\ depositCheckError' = "Network connection issue. Please check your internet connection."
          /\ ScheduledOnce(r.addr, BackoffDelay(r.retryCount))]_vars

\* C31: whenever approvalStatus or depositStatus is pending both buttons are
\* disabled; the deposit button is enabled only with approvalStatus approved
\* and depositStatus not pending; the approve button is disabled whenever
\* approvalStatus is approved.
C31_ButtonGating ==
  /\ isAnyTransactionPending => isApproveButtonDisabled /\ isDepositButtonDisabled
  /\ ~isDepositButtonDisabled => approvalStatus = "approved" /\ depositStatus # "pending"
  /\ approvalStatus = "approved" => isApproveButtonDisabled
\* the buttons are on the page, approved, with a deposit in flight
C31_Witness ==
  /\ ActionButtonsShown /\ approvalStatus = "approved" /\ depositStatus = "pending"
  /\ isApproveButtonDisabled /\ isDepositButtonDisabled
  /\ \E w \in Writes : w.kind = "deposit"

\* C32: in behaviours with status reads only, once a status read has succeeded
\* (hasDeposited holds its answer) and the retry counter is 0, the counter
\* stays 0 in every step taken while that answer stands, that is, until a
\* later read fails.
C32_CounterStaysZero ==
  [][scenario.maxWrites = 0 /\ hasDeposited # Null /\ retryCount = 0
       => retryCount' = 0]_vars

\* a checkDepositStatus invocation for address a, not a backoff retry, begins
\* to await hasDeposited() in this step
StatusReadDispatched(a) ==
  \E r \in DOMAIN reads' : /\ r.addr = a /\ ~r.isRetry /\ r.phase = "hasDeposited"
                           /\ CopiesIn(r, reads') > CopiesIn(r, reads)
\* C33: retryDepositStatusCheck, with an identity active and a status error
\* shown, calls checkDepositStatus in the same step whatever backoff timers
\* are pending, and leaves those timers as they are: with the pool address
\* configured a read for the address is in flight after the step, without it
\* the call fails at once with the configuration error; and every status read
\* that returns leaves the retry counter 0.
C33_ManualRetryReadsAtOnce ==
  [][/\ ClickRetryStatus
          => /\ IF poolConfigured
                THEN StatusReadDispatched(address)
                ELSE depositCheckError' = StatusConfigFailure.depositCheckError
             /\ timers' = timers
             /\ retryCount' = 0
     /\ \A r \in Reads, d \in BOOLEAN : StatusReturns(r, d) => retryCount' = 0]_vars
\* after the click: a backoff timer is still pending, the counter is 0, the
\* error is cleared, and a read that captured the counter before the reset
\* is in flight
C33_Witness ==
  /\ Active /\ timers # EmptyBag /\ retryCount = 0
  /\ hasDeposited = Null /\ depositCheckError = Null
  /\ \E r \in Reads : r.addr = address /\ ~r.isRetry /\ r.retryCount > 0

\* an invocation suspended before its submission becomes one awaiting it
SubmissionOf(x) ==
  /\ x.phase = "submit" /\ CopiesIn(x, writes') > CopiesIn(x, writes)
\* C34: an invocation comes to await approveUSDT(amount) or deposit() only
\* from its own reads of the amount, the balance and (deposit) the allowance,
\* with balance >= amount and (deposit) allowance >= amount; and the
\* allowance an approval settles is the amount read.
C34_SubmitAfterOwnChecks ==
  [][/\ \A x \in DOMAIN writes' : SubmissionOf(x)
          => \E w \in Writes, bal \in BalanceValues :
                /\ w.phase = "prepare" /\ x = [w EXCEPT !.phase = "submit"]
                /\ writes' = Advance(w, "submit")
                /\ bal >= flatDepositAmount
                /\ x.kind = "deposit" => allowance[x.addr] >= flatDepositAmount
                /\ ApprovePrepared(w, bal) \/ DepositPrepared(w, bal)
     /\ \A w \in Writes : ApproveSettles(w) => allowance'[w.addr] = flatDepositAmount]_vars
\* a deposit awaits deposit() while the ledger holds the allowance for it
C34_Witness ==
  /\ Active
  /\ \E w \in Writes : /\ w.kind = "deposit" /\ w.phase = "submit"
                       /\ w.addr = address /\ AllowanceOk(w.addr)
  /\ depositStatus = "pending"

\* the invocations retryTransaction adds to those in flight
RetryStarts == RetryTransaction(Cur, writes).wr (-) writes
\* C35: retryTransaction clears the error and calls handleApprove when
\* approvalStatus is failed, otherwise handleDeposit when depositStatus is
\* failed (which starts a deposit only past its own guard, approvalStatus
\* approved), and nothing otherwise; it never starts two invocations.  The
\* Retry button applies it and closes the popup.
C35_RetryReinvokesFailed ==
  /\ [](/\ RetryTransaction(Cur, writes).st.error = Null
        /\ BagCardinality(RetryStarts) <= 1
        /\ approvalStatus = "failed" /\ address # Null
             => /\ RetryStarts = SetToBag({ApproveCall(address, approvalStatus)})
                /\ RetryTransaction(Cur, writes).st.approvalStatus = "pending"
                /\ RetryTransaction(Cur, writes).st.depositStatus = depositStatus
        /\ approvalStatus # "failed" /\ depositStatus = "failed"
             => /\ RetryTransaction(Cur, writes) = HandleDeposit([Cur EXCEPT !.error = Null], writes)
                /\ RetryTransaction(Cur, writes).st.approvalStatus = approvalStatus
                /\ \A w \in DOMAIN RetryStarts : w.kind = "deposit"
        /\ approvalStatus = "approved" /\ depositStatus = "failed" /\ address # Null
             => /\ RetryStarts = SetToBag({DepositCall(address)})
                /\ RetryTransaction(Cur, writes).st.depositStatus = "pending"
        /\ approvalStatus # "failed" /\ depositStatus # "failed"
             => RetryTransaction(Cur, writes) = [st |-> [Cur EXCEPT !.error = Null], wr |-> writes])
  /\ [][ClickRetry => /\ error' = Null
                      /\ writes' = RetryTransaction(Cur, writes).wr
                      /\ approvalStatus = "failed" => approvalStatus' = "pending"]_vars
\* a retried approval is in flight, begun from approvalStatus failed
C35_Witness ==
  /\ Active /\ approvalStatus = "pending" /\ error = Null
  /\ \E w \in Writes : w.kind = "approve" /\ w.approvalStatus = "failed" /\ w.phase = "prepare"

\* the wallet prompt of invocation w is declined
ApproveRejectedOf(w) == \E f \in ApproveSubmitFailures : f.rejected /\ ApproveSubmitThrows(w, f)
DepositRejectedOf(w) == \E f \in DepositSubmitFailures : f.rejected /\ DepositSubmitThrows(w, f)
\* a handleApprove / handleDeposit invocation resumes from an await
WriteResumes(w) ==
  \/ ApproveFailure(w) \/ DepositFailure(w)
  \/ ApproveRejectedOf(w) \/ DepositRejectedOf(w)
  \/ \E bal \in BalanceValues : ApprovePrepared(w, bal) \/ DepositPrepared(w, bal)
  \/ ApproveSubmitted(w) \/ DepositSubmitted(w)
  \/ ApproveSettles(w) \/ DepositSettles(w)
  \/ VerificationOf(w)
\* C36: an invocation that resumes while another identity is the active one
\* (the identity changed while its call was in flight) changes none of
\* approvalStatus, depositStatus, hasDeposited and error.
C36_StaleWriteCancelled ==
  [][\A w \in Writes : Active /\ w.addr # address /\ WriteResumes(w)
       => /\ approvalStatus' = approvalStatus /\ depositStatus' = depositStatus
          /\ hasDeposited' = hasDeposited /\ error' = error]_vars

\* C37: while the session stays as it is, depositStatus is success and
\* hasDeposited is true (a deposit settled in this session), no status read
\* that resumes changes hasDeposited.
C37_FlagKeptAfterDeposit ==
  [][(/\ Active /\ SameSession /\ depositStatus = "success" /\ hasDeposited = "true"
      /\ \E r \in Reads : r.addr = address /\ StatusApplied(r))
       => hasDeposited' = "true"]_vars

\* C38: closeErrorPopup clears error and leaves approvalStatus,
\* depositStatus, hasDeposited, depositCheckError, the retry counter, the
\* polling interval, the backoff timers and the calls in flight as they are.
C38_CloseOnlyClearsError ==
  [][ClickClose
       => /\ error' = Null
          /\ UNCHANGED <<approvalStatus, depositStatus, hasDeposited, depositCheckError,
                         retryCount, polling, timers, reads, writes>>]_vars
\* the popup of a failed approval was closed: the failure stands, no error
C38_Witness ==
  /\ Active /\ approvalStatus = "failed" /\ error = Null /\ writes = EmptyBag
  /\ hasDeposited = "false"

(***************************************************************************)
(* Progress.  Every ledger-client call eventually returns or throws, and   *)
(* the event loop then runs the continuation of the invocation that awaits *)
(* it: a handleApprove or handleDeposit invocation, or a status read, that *)
(* can resume again and again does resume.  Nothing obliges the user, the  *)
(* wallet session, the interval or the backoff timers to act.              *)
(***************************************************************************)
ApproveResumes == \E w \in Writes : w.kind = "approve" /\ WriteResumes(w)
DepositResumes == \E w \in Writes : w.kind = "deposit" /\ WriteResumes(w)

\* Progress is explored in the scenarios of Spec in which invocations are
\* started, with LiveMaxReads status reads in flight at once where two
\* invocations can overlap, and in the backoff scenario with the one failure
\* that is classified as a network failure.
LiveMaxReads == 1
PublicClientUnavailable ==
  StatusCatch(WrapCreateReadOnlyContractUtils(Err("Public client not available")))
LiveScenarios ==
  {[s EXCEPT !.maxReads = IF s.maxWrites > 1 THEN LiveMaxReads ELSE @] :
     s \in {x \in Scenarios : x.maxWrites > 0}}
    \cup {[s EXCEPT !.readFailures = {PublicClientUnavailable}, !.ledger = {}] :
            s \in {x \in Scenarios : x.name = "retries"}}
LiveInit == StartIn(LiveScenarios)
LiveSpec ==
  /\ LiveInit /\ [][Next]_vars
  /\ SF_vars(ApproveResumes) /\ SF_vars(DepositResumes) /\ SF_vars(ReconciliationApplied)

\* C39: if the invocations in flight keep resuming, approvalStatus pending
\* leads to approvalStatus not pending and depositStatus pending leads to
\* depositStatus not pending.
C39_PendingEnds ==
  /\ approvalStatus = "pending" ~> approvalStatus # "pending"
  /\ depositStatus = "pending" ~> depositStatus # "pending"
\* an approval and a deposit both left pending: approved, success, nothing
\* in flight
C39_Witness ==
  /\ Active /\ approvalStatus = "approved" /\ depositStatus = "success"
  /\ hasDeposited = "true" /\ writes = EmptyBag

====
